---- MODULE Spec2Model ----
(***************************************************************************)
(* Two operator scripts of studevPH: migrate_to_supabase.py (SQLite ->     *)
(* Postgres migration orchestrator) and test_neon_connection.py            *)
(* (connectivity verifier), with the .env loader both run at import time.  *)
(*                                                                         *)
(* A Python str is a sequence of atoms.  The punctuation the scripts look  *)
(* at (= " ' # @ : / space newline) is one atom per character; every other *)
(* atom is a run of characters holding none of these, so strip, split,     *)
(* `in` and startswith act on the sequence as Python acts on the string.   *)
(***************************************************************************)
EXTENDS Integers, Sequences, FiniteSets, TLC

VARIABLES script, pc, envFileExists, envLines, lineNo, environ, engine,
          sqlite_path, ci_mode, auto_confirm, childEnv, exportFile,
          answers, dbOutcome, result, exc, exitCode, log, environ0

vars == <<script, pc, envFileExists, envLines, lineNo, environ, engine,
          sqlite_path, ci_mode, auto_confirm, childEnv, exportFile,
          answers, dbOutcome, result, exc, exitCode, log, environ0>>

(* ------------------------------ bounds --------------------------------- *)
\* largest number of lines of the .env file
MaxLines == 2

(* --------------------------- str operations ---------------------------- *)
Whitespace == {" ", "\n", "\t"}

RECURSIVE LStrip(_, _)
\* str.lstrip(chars)
LStrip(s, chars) ==
    IF s # <<>> /\ Head(s) \in chars THEN LStrip(Tail(s), chars) ELSE s

RECURSIVE RStrip(_, _)
\* str.rstrip(chars)
RStrip(s, chars) ==
    IF s # <<>> /\ s[Len(s)] \in chars
    THEN RStrip(SubSeq(s, 1, Len(s) - 1), chars) ELSE s

\* str.strip(chars): every leading and trailing character in chars goes
StripChars(s, chars) == RStrip(LStrip(s, chars), chars)

\* str.strip()
Strip(s) == StripChars(s, Whitespace)

\* str.startswith(p)
StartsWith(s, p) == Len(s) >= Len(p) /\ SubSeq(s, 1, Len(p)) = p

\* index of the first occurrence of sub in s, 0 when there is none
Find(s, sub) ==
    LET hits == {i \in 1..(Len(s) - Len(sub) + 1) :
                     SubSeq(s, i, i + Len(sub) - 1) = sub}
    IN  IF hits = {} THEN 0 ELSE CHOOSE i \in hits : \A j \in hits : i <= j

\* sub in s
Contains(s, sub) == Find(s, sub) # 0

RECURSIVE Split(_, _)
\* s.split(sep)
Split(s, sep) ==
    LET i == Find(s, sep)
    IN  IF i = 0 THEN <<s>>
        ELSE <<SubSeq(s, 1, i - 1)>> \o Split(SubSeq(s, i + Len(sep), Len(s)), sep)

\* s.split(sep, 1)
Split1(s, sep) ==
    LET i == Find(s, sep)
    IN  IF i = 0 THEN <<s>>
        ELSE <<SubSeq(s, 1, i - 1), SubSeq(s, i + Len(sep), Len(s))>>

\* str.lower() on one atom: the atoms with upper-case letters used below
LowerAtom(a) ==
    CASE a = "TRUE" -> "true"
      [] a = "True" -> "true"
      [] a = "YES"  -> "yes"
      [] a = "Yes"  -> "yes"
      [] a = "Y"    -> "y"
      [] a = "NO"   -> "no"
      [] OTHER      -> a

\* str.lower()
Lower(s) == [i \in 1..Len(s) |-> LowerAtom(s[i])]

(* ------------------------------ os.environ ----------------------------- *)
\* os.environ.get(key): <<>> stands for None where the caller tests `not v`
Has(env, key) == key \in DOMAIN env

\* os.environ.get(key, default)
Get(env, key, default) == IF Has(env, key) THEN env[key] ELSE default

\* os.environ[key] = value
SetEnv(env, key, value) ==
    [k \in DOMAIN env \cup {key} |-> IF k = key THEN value ELSE env[k]]

\* del env[key]
DelEnv(env, key) == [k \in DOMAIN env \ {key} |-> env[k]]

(* ------------------------- names and input values ---------------------- *)
SUPABASE_URL == <<"SUPABASE_URL">>
DATABASE_URL == <<"DATABASE_URL">>
CI == <<"CI">>
AUTO_CONFIRM_MIGRATION == <<"AUTO_CONFIRM_MIGRATION">>
DJANGO_SETTINGS_MODULE == <<"DJANGO_SETTINGS_MODULE">>

\* postgresql://user:pw@host/db
GoodUrl == <<"postgresql", ":", "/", "/", "user", ":", "pw", "@", "host", "/", "db">>
\* postgresql://user@host/db
NoPwUrl == <<"postgresql", ":", "/", "/", "user", "@", "host", "/", "db">>
\* user:pw@host://db           (no "://" before the "@")
LateSchemeUrl == <<"user", ":", "pw", "@", "host", ":", "/", "/", "db">>
\* a://b:c://d@host            ("://" twice before the "@")
TwoSchemeUrl == <<"a", ":", "/", "/", "b", ":", "c", ":", "/", "/", "d", "@", "host">>
\* postgresql://user:p@ss@host ("@" twice)
TwoAtUrl == <<"postgresql", ":", "/", "/", "user", ":", "p", "@", "ss", "@", "host">>
\* sqlite:///db.sqlite3        (no "@")
SqliteUrl == <<"sqlite", ":", "/", "/", "/", "db.sqlite3">>

\* the lines a .env file is made of, each with its line end
EnvLineMenu ==
    { <<"SUPABASE_URL", "=", "\"">> \o GoodUrl \o <<"\"", "\n">>,
      <<"CI", "=", "true", "\n">>,
      <<"#", " ", "K", "=", "x", "\n">>,
      <<"\n">>,
      <<"K", "=", "'", "v", "'", "\n">>,
      <<"K", "=", "\"", "'", "v", "'", "\"", "\n">>,
      <<"novalue", "\n">>,
      <<"=", "v", "\n">> }

\* the .env files: up to MaxLines lines
EnvFiles == UNION {[1..n -> EnvLineMenu] : n \in 0..MaxLines}

\* one environment from the value (or absence, NoVar) of each variable
NoVar == <<"<unset>">>
MkEnv(pairs) ==
    LET set == {p \in pairs : p[2] # NoVar}
    IN  [k \in {p[1] : p \in set} |-> (CHOOSE p \in set : p[1] = k)[2]]

\* the environments the migration script is started in
MigrateEnvs ==
    { MkEnv({<<SUPABASE_URL, s>>, <<DATABASE_URL, d>>, <<CI, c>>,
             <<AUTO_CONFIRM_MIGRATION, a>>}) :
        s \in {NoVar, <<>>, GoodUrl}, d \in {NoVar, GoodUrl},
        c \in {NoVar, <<"TRUE">>, <<"false">>},
        a \in {NoVar, <<"true">>, <<"yes">>} }

\* the environments the verifier is started in
VerifyEnvs ==
    { MkEnv({<<DATABASE_URL, d>>}) :
        d \in {NoVar, <<>>, GoodUrl, NoPwUrl, LateSchemeUrl, TwoSchemeUrl,
               TwoAtUrl, SqliteUrl} }

\* settings.DATABASES["default"]["ENGINE"]
Engines ==
    { <<"django.db.backends.", "postgres", "ql">>,
      <<"django.db.backends.", "sqlite", "3">>,
      <<"django.db.backends.", "mysql">>,
      <<"unknown">> }

None == <<"<None>">>

(* -------------------------------- Init --------------------------------- *)
Init ==
    /\ script \in {"migrate", "verify"}
    /\ pc = "load"
    /\ envFileExists \in BOOLEAN
    /\ envLines \in EnvFiles
    /\ (~envFileExists => envLines = <<>>)
    /\ lineNo = 1
    /\ environ \in (IF script = "migrate" THEN MigrateEnvs ELSE VerifyEnvs)
    /\ environ0 = environ
    /\ engine = None
    /\ sqlite_path = 0
    /\ ci_mode = FALSE
    /\ auto_confirm = FALSE
    /\ childEnv = None
    /\ exportFile \in {"absent", "stale"}
    /\ (script = "verify" => exportFile = "absent")
    /\ answers = [confirm |-> None, delete |-> None]
    /\ dbOutcome = "none"
    /\ result = "none"
    /\ exc = "none"
    /\ exitCode = -1
    /\ log = <<>>

(* ------------------------------ .env loader ---------------------------- *)
\* line 23-24: the stripped line is an assignment the loader acts on
EnvLineAssigns(line) ==
    LET s == Strip(line)
    IN  s # <<>> /\ ~StartsWith(s, <<"#">>) /\ Contains(s, <<"=">>)

\* line 25, 28: key.strip()
EnvLineKey(line) == Strip(Split1(Strip(line), <<"=">>)[1])

\* line 25, 27: value.strip('"').strip("'")
EnvLineValue(line) ==
    StripChars(StripChars(Split1(Strip(line), <<"=">>)[2], {"\""}), {"'"})

\* the file is absent: the loader is skipped
LoadAbsent ==
    /\ pc = "load" /\ ~envFileExists
    /\ pc' = "setup"
    /\ UNCHANGED <<script, envFileExists, envLines, lineNo, environ, environ0,
                   engine, sqlite_path, ci_mode, auto_confirm, childEnv,
                   exportFile, answers, dbOutcome, result, exc, exitCode, log>>

\* one iteration of `for line in f`; os.environ[""] = v raises OSError,
\* which nothing at module level catches
LoadLine ==
    /\ pc = "load" /\ envFileExists /\ lineNo <= Len(envLines)
    /\ LET line == envLines[lineNo]
       IN  IF ~EnvLineAssigns(line)
           THEN /\ lineNo' = lineNo + 1
                /\ UNCHANGED <<environ, pc, exc, exitCode>>
           ELSE IF EnvLineKey(line) = <<>>
           THEN /\ exc' = "OSError" /\ pc' = "exited" /\ exitCode' = 1
                /\ UNCHANGED <<environ, lineNo>>
           ELSE /\ environ' = SetEnv(environ, EnvLineKey(line), EnvLineValue(line))
                /\ lineNo' = lineNo + 1
                /\ UNCHANGED <<pc, exc, exitCode>>
    /\ UNCHANGED <<script, envFileExists, envLines, environ0, engine,
                   sqlite_path, ci_mode, auto_confirm, childEnv, exportFile,
                   answers, dbOutcome, result, log>>

\* the file is read to its end
LoadEnd ==
    /\ pc = "load" /\ envFileExists /\ lineNo > Len(envLines)
    /\ pc' = "setup"
    /\ UNCHANGED <<script, envFileExists, envLines, lineNo, environ, environ0,
                   engine, sqlite_path, ci_mode, auto_confirm, childEnv,
                   exportFile, answers, dbOutcome, result, exc, exitCode, log>>

\* os.environ.setdefault(...); import django; django.setup().  A failing
\* import ends the process with status 1 in both scripts (sys.exit(1) in the
\* verifier, the uncaught ImportError in the migration script).
DjangoSetup ==
    /\ pc = "setup"
    /\ environ' = IF Has(environ, DJANGO_SETTINGS_MODULE) THEN environ
                  ELSE SetEnv(environ, DJANGO_SETTINGS_MODULE, <<"studevPH.settings.dev">>)
    /\ \E ok \in BOOLEAN :
          IF ok
          THEN /\ pc' = IF script = "migrate" THEN "validate" ELSE "v_validate"
               /\ engine' \in (IF script = "verify" THEN Engines ELSE {None})
               /\ UNCHANGED <<exc, exitCode>>
          ELSE /\ exc' = "ImportError" /\ pc' = "exited" /\ exitCode' = 1
               /\ UNCHANGED engine
    /\ UNCHANGED <<script, envFileExists, envLines, lineNo, environ0,
                   sqlite_path, ci_mode, auto_confirm, childEnv, exportFile,
                   answers, dbOutcome, result, log>>

(* ----------------------- migrate_to_supabase.py ------------------------ *)
\* the names bound at module level when main() runs (imports, lines 9-41)
MigrateGlobals ==
    {"os", "sys", "Path", "BASE_DIR", "env_file", "django", "subprocess",
     "settings", "call_command", "connections"}

\* number of entries of possible_paths
NumPaths == 3

\* what input() can give: a line typed by the operator
Answers == {<<"yes">>, <<"y">>, <<"YES">>, <<"no">>, <<>>}

\* `if database_url == "":` in place of `if not database_url:`
FalsyEmptyOnly(v) == v = <<>>

\* `not database_url`: None and "" are both falsy
Falsy(v) == v = None \/ v = <<>>

\* the comparison without .lower()
FlagTrueCaseSensitive(env, name) == Get(env, name, <<"false">>) = <<"true">>

\* os.environ.get(name, "false").lower() == "true"
FlagTrue(env, name) == Lower(Get(env, name, <<"false">>)) = <<"true">>

\* the test of line 206 with its negation lost
IsYesNegated(answer) == Lower(answer) \notin {<<"yes">>, <<"y">>}

\* answer.lower() in ["yes", "y"]
IsYes(answer) == Lower(answer) \in {<<"yes">>, <<"y">>}

\* env = os.environ.copy(); if "DATABASE_URL" in env: del env["DATABASE_URL"]
SubprocessEnv(env) ==
    IF Has(env, DATABASE_URL) THEN DelEnv(env, DATABASE_URL) ELSE env

\* sys.exit(0) whatever main() returned
ExitStatusAlwaysZero(success) == 0

\* sys.exit(0 if success else 1)
ExitStatus(success) == IF success THEN 0 ELSE 1

\* the variables main() of the migration script never writes
migrateFrame == <<script, envFileExists, envLines, lineNo, environ, environ0,
                  engine, dbOutcome, exitCode>>

\* lines 49-57: SUPABASE_URL must be set
Validate ==
    /\ pc = "validate"
    /\ log' = Append(log, "step:validate")
    /\ IF Falsy(Get(environ, SUPABASE_URL, None))
       THEN result' = "False" /\ pc' = "returned"
       ELSE pc' = "locate" /\ UNCHANGED result
    /\ UNCHANGED <<sqlite_path, ci_mode, auto_confirm, childEnv, exportFile,
                   answers, exc>>
    /\ UNCHANGED migrateFrame

\* lines 59-82: the first candidate path that exists
Locate ==
    /\ pc = "locate"
    /\ log' = Append(log, "step:locate")
    /\ \E exists \in [1..NumPaths -> BOOLEAN] :
          LET found == {i \in 1..NumPaths : exists[i]}
          IN  IF found = {}
              THEN sqlite_path' = 0 /\ result' = "False" /\ pc' = "returned"
              ELSE /\ sqlite_path' = CHOOSE i \in found : \A j \in found : i <= j
                   /\ pc' = "confirm" /\ UNCHANGED result
    /\ UNCHANGED <<ci_mode, auto_confirm, childEnv, exportFile, answers, exc>>
    /\ UNCHANGED migrateFrame

\* lines 84-105: operator confirmation, skipped in unattended mode.  input()
\* ends with a line, with EOFError or with KeyboardInterrupt; nothing in
\* main() catches the last two here.
Confirm ==
    /\ pc = "confirm"
    /\ ci_mode' = FlagTrue(environ, CI)
    /\ auto_confirm' = FlagTrue(environ, AUTO_CONFIRM_MIGRATION)
    /\ IF ~(ci_mode' \/ auto_confirm')
       THEN /\ log' = log \o <<"step:confirm", "input:confirm">>
            /\ \/ \E a \in Answers :
                    /\ answers' = [answers EXCEPT !.confirm = a]
                    /\ IF ~IsYes(a)
                       THEN result' = "False" /\ pc' = "returned"
                       ELSE pc' = "export" /\ UNCHANGED result
                    /\ UNCHANGED exc
               \/ \E e \in {"EOFError", "KeyboardInterrupt"} :
                    /\ exc' = e /\ pc' = "returned"
                    /\ UNCHANGED <<answers, result>>
       ELSE /\ log' = Append(log, "step:confirm")
            /\ pc' = "export"
            /\ UNCHANGED <<answers, result, exc>>
    /\ UNCHANGED <<sqlite_path, childEnv, exportFile>>
    /\ UNCHANGED migrateFrame

\* `result.returncode < 0` in place of `!= 0`
ReturncodeFailsNegativeOnly(rc) == rc < 0

\* line 138: result.returncode != 0
ReturncodeFails(rc) == rc # 0

\* lines 107-151: dumpdata in a child process, its output written to the
\* export file.  Every Exception is caught and turned into `return False`;
\* KeyboardInterrupt is not an Exception and leaves main().
Export ==
    /\ pc = "export"
    /\ childEnv' = SubprocessEnv(environ)
    /\ \/ \* subprocess.run raises OSError
          /\ log' = log \o <<"step:export", "subprocess.run">>
          /\ result' = "False" /\ pc' = "returned"
          /\ UNCHANGED <<exc, exportFile>>
       \/ \* the operator interrupts the child
          /\ log' = log \o <<"step:export", "subprocess.run">>
          /\ exc' = "KeyboardInterrupt" /\ pc' = "returned"
          /\ UNCHANGED <<result, exportFile>>
       \/ \E rc \in {0, 1} :
             IF ReturncodeFails(rc)
             THEN /\ log' = log \o <<"step:export", "subprocess.run", "returncode:1">>
                  /\ result' = "False" /\ pc' = "returned"
                  /\ UNCHANGED <<exc, exportFile>>
             ELSE \E w \in {"ok", "open_fails", "write_fails"} :
                CASE w = "open_fails" ->
                       /\ log' = log \o <<"step:export", "subprocess.run",
                                          IF rc = 0 THEN "returncode:0" ELSE "returncode:1">>
                       /\ result' = "False" /\ pc' = "returned"
                       /\ UNCHANGED <<exc, exportFile>>
                  [] w = "write_fails" ->
                       /\ log' = log \o <<"step:export", "subprocess.run",
                                          IF rc = 0 THEN "returncode:0" ELSE "returncode:1",
                                          "open:w">>
                       /\ exportFile' = "partial"
                       /\ result' = "False" /\ pc' = "returned"
                       /\ UNCHANGED exc
                  [] w = "ok" ->
                       /\ log' = log \o <<"step:export", "subprocess.run",
                                          IF rc = 0 THEN "returncode:0" ELSE "returncode:1",
                                          "open:w", "ok:export">>
                       /\ exportFile' = "fresh"
                       /\ pc' = "setupdb"
                       /\ UNCHANGED <<exc, result>>
    /\ UNCHANGED <<sqlite_path, ci_mode, auto_confirm, answers>>
    /\ UNCHANGED migrateFrame

\* lines 153-173 with the `return False` of line 173 lost: a failed
\* ensure_connection or migrate is reported and main() goes on
SetupDbNoReturn ==
    /\ pc = "setupdb"
    /\ \E o \in {"ok", "connect_fails", "migrate_fails", "interrupt"} :
          CASE o = "connect_fails" ->
                 /\ log' = log \o <<"step:migrate", "ensure_connection">>
                 /\ pc' = "import" /\ UNCHANGED <<exc, result>>
            [] o = "migrate_fails" ->
                 /\ log' = log \o <<"step:migrate", "ensure_connection", "migrate">>
                 /\ pc' = "import" /\ UNCHANGED <<exc, result>>
            [] o = "interrupt" ->
                 /\ log' = log \o <<"step:migrate", "ensure_connection", "migrate">>
                 /\ exc' = "KeyboardInterrupt" /\ pc' = "returned"
                 /\ UNCHANGED result
            [] o = "ok" ->
                 /\ log' = log \o <<"step:migrate", "ensure_connection", "migrate",
                                    "ok:migrate">>
                 /\ pc' = "import" /\ UNCHANGED <<exc, result>>
    /\ UNCHANGED <<sqlite_path, ci_mode, auto_confirm, childEnv, exportFile,
                   answers>>
    /\ UNCHANGED migrateFrame

\* lines 153-173: connect to the destination and run `migrate`.  The
\* connections.close_all() of line 159 is outside the try block.
SetupDb ==
    /\ pc = "setupdb"
    /\ IF "connections" \notin MigrateGlobals
       THEN /\ log' = Append(log, "step:migrate")
            /\ exc' = "NameError" /\ pc' = "returned" /\ UNCHANGED result
       ELSE \E o \in {"ok", "connect_fails", "migrate_fails", "interrupt"} :
          CASE o = "connect_fails" ->
                 /\ log' = log \o <<"step:migrate", "ensure_connection">>
                 /\ result' = "False" /\ pc' = "returned" /\ UNCHANGED exc
            [] o = "migrate_fails" ->
                 /\ log' = log \o <<"step:migrate", "ensure_connection", "migrate">>
                 /\ result' = "False" /\ pc' = "returned" /\ UNCHANGED exc
            [] o = "interrupt" ->
                 /\ log' = log \o <<"step:migrate", "ensure_connection", "migrate">>
                 /\ exc' = "KeyboardInterrupt" /\ pc' = "returned"
                 /\ UNCHANGED result
            [] o = "ok" ->
                 /\ log' = log \o <<"step:migrate", "ensure_connection", "migrate",
                                    "ok:migrate">>
                 /\ pc' = "import" /\ UNCHANGED <<exc, result>>
    /\ UNCHANGED <<sqlite_path, ci_mode, auto_confirm, childEnv, exportFile,
                   answers>>
    /\ UNCHANGED migrateFrame

\* lines 175-190: loaddata of the export file
Import ==
    /\ pc = "import"
    /\ \E o \in {"ok", "fails", "interrupt"} :
          CASE o = "fails" ->
                 /\ log' = log \o <<"step:import", "loaddata">>
                 /\ result' = "False" /\ pc' = "returned" /\ UNCHANGED exc
            [] o = "interrupt" ->
                 /\ log' = log \o <<"step:import", "loaddata">>
                 /\ exc' = "KeyboardInterrupt" /\ pc' = "returned"
                 /\ UNCHANGED result
            [] o = "ok" ->
                 /\ log' = log \o <<"step:import", "loaddata", "ok:import">>
                 /\ pc' = "cleanup" /\ UNCHANGED <<exc, result>>
    /\ UNCHANGED <<sqlite_path, ci_mode, auto_confirm, childEnv, exportFile,
                   answers>>
    /\ UNCHANGED migrateFrame

\* export_file.unlink(): the file is gone, or OSError is raised and the
\* caller's `except Exception` (line 211) only warns
Unlink(events) ==
    \/ /\ log' = log \o events \o <<"unlink">>
       /\ exportFile' = "absent"
    \/ /\ log' = log \o events \o <<"unlink", "unlink:OSError">>
       /\ UNCHANGED exportFile

\* lines 192-221: cleanup and `return True`.  unlink() may raise OSError
\* and input() EOFError: both are caught and only warned about.
\* KeyboardInterrupt at the prompt leaves main().
Cleanup ==
    /\ pc = "cleanup"
    /\ IF exportFile = "absent"
       THEN /\ log' = Append(log, "step:cleanup")
            /\ result' = "True" /\ pc' = "returned"
            /\ UNCHANGED <<exportFile, answers, exc>>
       ELSE IF ci_mode \/ auto_confirm
       THEN /\ Unlink(<<"step:cleanup">>)
            /\ result' = "True" /\ pc' = "returned"
            /\ UNCHANGED <<answers, exc>>
       ELSE \/ \E a \in Answers :
                 /\ answers' = [answers EXCEPT !.delete = a]
                 /\ IF IsYes(a)
                    THEN Unlink(<<"step:cleanup", "input:delete">>)
                    ELSE /\ log' = log \o <<"step:cleanup", "input:delete">>
                         /\ UNCHANGED exportFile
                 /\ result' = "True" /\ pc' = "returned"
                 /\ UNCHANGED exc
            \/ \* EOFError from input(), caught at line 211
               /\ log' = log \o <<"step:cleanup", "input:delete", "input:EOFError">>
               /\ result' = "True" /\ pc' = "returned"
               /\ UNCHANGED <<exportFile, answers, exc>>
            \/ \* KeyboardInterrupt at the prompt
               /\ log' = log \o <<"step:cleanup", "input:delete">>
               /\ exc' = "KeyboardInterrupt" /\ pc' = "returned"
               /\ UNCHANGED <<exportFile, answers, result>>
    /\ UNCHANGED <<sqlite_path, ci_mode, auto_confirm, childEnv>>
    /\ UNCHANGED migrateFrame

\* lines 224-236: the __main__ block
MigrateMain ==
    /\ script = "migrate" /\ pc = "returned"
    /\ exitCode' = IF exc = "none" THEN ExitStatus(result = "True") ELSE 1
    /\ pc' = "exited"
    /\ UNCHANGED <<script, envFileExists, envLines, lineNo, environ, environ0,
                   engine, sqlite_path, ci_mode, auto_confirm, childEnv,
                   exportFile, answers, dbOutcome, result, exc, log>>

(* ------------------------ test_neon_connection.py ---------------------- *)
\* the names bound at module level when test_connection() runs (lines 9-44)
VerifyGlobals ==
    {"os", "sys", "Path", "BASE_DIR", "env_file", "django", "connection",
     "settings"}

\* lines 59-74: what the masking of the URL for display ends in
MaskUrl(url) ==
    IF Contains(url, <<"@">>) /\ Contains(url, <<":", "/", "/">>)
    THEN LET parts == Split(url, <<"@">>)
         IN  IF Len(parts) = 2
             THEN LET halves == Split(parts[1], <<":", "/", "/">>)
                  IN  IF Len(halves) < 2 THEN "IndexError"
                      ELSE IF Contains(halves[2], <<":">>)
                      THEN IF Len(halves) # 2 THEN "ValueError" ELSE "masked"
                      ELSE "set"
             ELSE "set"
    ELSE "set"

\* line 84: "postgresql" in engine or "postgres" in engine
IsPostgres(e) == Contains(e, <<"postgres", "ql">>) \/ Contains(e, <<"postgres">>)

\* line 96: "sqlite" in engine
IsSqlite(e) == Contains(e, <<"sqlite">>)

\* the variables test_connection() never writes
verifyFrame == <<script, envFileExists, envLines, lineNo, environ, environ0,
                 engine, sqlite_path, ci_mode, auto_confirm, childEnv,
                 exportFile, answers, exitCode>>

\* lines 52-57: DATABASE_URL must be set
VValidate ==
    /\ pc = "v_validate"
    /\ log' = Append(log, "step:validate")
    /\ IF Falsy(Get(environ, DATABASE_URL, None))
       THEN result' = "False" /\ pc' = "returned"
       ELSE pc' = "v_mask" /\ UNCHANGED result
    /\ UNCHANGED <<dbOutcome, exc>>
    /\ UNCHANGED verifyFrame

\* lines 59-74: print the URL with its password masked; an exception raised
\* here leaves test_connection()
VMask ==
    /\ pc = "v_mask"
    /\ LET m == MaskUrl(environ[DATABASE_URL])
       IN  IF m \in {"IndexError", "ValueError"}
           THEN /\ exc' = m /\ pc' = "returned"
                /\ log' = Append(log, "step:mask")
           ELSE /\ pc' = "v_engine" /\ UNCHANGED exc
                /\ log' = log \o <<"step:mask", "print:" \o m>>
    /\ UNCHANGED <<dbOutcome, result>>
    /\ UNCHANGED verifyFrame

\* lines 76-103: the configured engine; SQLite fails the test
VEngine ==
    /\ pc = "v_engine"
    /\ log' = Append(log, "step:engine")
    /\ IF IsPostgres(engine) THEN pc' = "v_connect" /\ UNCHANGED result
       ELSE IF IsSqlite(engine) THEN result' = "False" /\ pc' = "returned"
       ELSE pc' = "v_connect" /\ UNCHANGED result
    /\ UNCHANGED <<dbOutcome, exc>>
    /\ UNCHANGED verifyFrame

\* lines 105-155: the try block.  dbOutcome is what the database would
\* answer; line 112 reads the global `connections` first, and a name that
\* is not bound raises NameError, which `except Exception` catches.
VConnect ==
    /\ pc = "v_connect"
    /\ \E o \in {"ok", "connect_fails", "query_fails"} :
          /\ dbOutcome' = o
          /\ IF "connections" \notin VerifyGlobals
             THEN /\ log' = log \o <<"step:connect", "troubleshooting">>
                  /\ result' = "False"
             ELSE CASE o = "connect_fails" ->
                         /\ log' = log \o <<"step:connect", "ensure_connection",
                                            "troubleshooting">>
                         /\ result' = "False"
                    [] o = "query_fails" ->
                         /\ log' = log \o <<"step:connect", "ensure_connection",
                                            "execute", "troubleshooting">>
                         /\ result' = "False"
                    [] o = "ok" ->
                         /\ log' = log \o <<"step:connect", "ensure_connection",
                                            "execute", "execute", "execute">>
                         /\ result' = "True"
    /\ pc' = "returned"
    /\ UNCHANGED exc
    /\ UNCHANGED verifyFrame

\* lines 158-170: the __main__ block
VerifyMain ==
    /\ script = "verify" /\ pc = "returned"
    /\ exitCode' = IF exc = "none" THEN ExitStatus(result = "True") ELSE 1
    /\ pc' = "exited"
    /\ UNCHANGED <<script, envFileExists, envLines, lineNo, environ, environ0,
                   engine, sqlite_path, ci_mode, auto_confirm, childEnv,
                   exportFile, answers, dbOutcome, result, exc, log>>

Next ==
    \/ LoadAbsent \/ LoadLine \/ LoadEnd \/ DjangoSetup
    \/ Validate \/ Locate \/ Confirm \/ Export \/ SetupDb \/ Import \/ Cleanup
    \/ MigrateMain
    \/ VValidate \/ VMask \/ VEngine \/ VConnect \/ VerifyMain

Spec == Init /\ [][Next]_vars

(* =============================== claims =============================== *)
\* the log holds event ev
Occurs(ev) == \E i \in 1..Len(log) : log[i] = ev

\* how often the log holds event ev
Count(ev) == Cardinality({i \in 1..Len(log) : log[i] = ev})

\* every ev in the log has an earlier event first
Before(first, ev) ==
    \A i \in 1..Len(log) : log[i] = ev => \E j \in 1..(i - 1) : log[j] = first

\* main() of the running script is over, by return or by an exception
MainOver == pc \in {"returned", "exited"} /\ log # <<>>

\* main() returned a value
Returned == MainOver /\ exc = "none"

\* the steps of the migration in their fixed order
StepOrder ==
    <<"step:validate", "step:locate", "step:confirm", "step:export",
      "step:migrate", "step:import", "step:cleanup">>

\* the events of the log that touch a database or the export file
Effects ==
    {"subprocess.run", "open:w", "ensure_connection", "migrate", "loaddata",
     "unlink"}

\* the spellings of "true" an unattended-mode flag is recognised by
TrueAnyCase == {<<"true">>, <<"TRUE">>, <<"True">>}

\* an unattended-mode flag is set in the environment main() runs in
UnattendedFlagSet ==
    \/ Get(environ, CI, None) \in TrueAnyCase
    \/ Get(environ, AUTO_CONFIRM_MIGRATION, None) \in TrueAnyCase

\* the answers that are 'yes' or 'y' in any letter case
YesAnyCase == {<<"yes">>, <<"YES">>, <<"Yes">>, <<"y">>, <<"Y">>}

(* ---- C1 ---- *)
\* C1: when the migration run has started the dumpdata child process, the
\* environment handed to the child does not hold the destination-URL
\* variable whose presence main() validated in step 1 (SUPABASE_URL).
C1_ChildEnvLacksValidatedUrl ==
    (script = "migrate" /\ Occurs("subprocess.run"))
        => (childEnv # None /\ ~Has(childEnv, SUPABASE_URL))

(* ---- C2 ---- *)
\* C2: when DATABASE_URL is set, the engine is PostgreSQL and the database
\* accepts the connection and answers every query, test_connection returns
\* True and the process exits 0; the failure with the troubleshooting
\* checklist is given only when the connection or a query fails.
C2_VerifierReflectsConnection ==
    /\ (script = "verify" /\ pc = "exited" /\ IsPostgres(engine) /\ dbOutcome = "ok"
          /\ ~Falsy(Get(environ, DATABASE_URL, None)))
         => (result = "True" /\ exitCode = 0)
    /\ Occurs("troubleshooting") => dbOutcome \in {"connect_fails", "query_fails"}

(* ---- C3 ---- *)
\* C3: with SUPABASE_URL not set, main() of the migration script does
\* nothing but the validation step: no child process, no connection, no
\* migrate, no loaddata, no write of the export file, and it returns False.
C3_NoUrlHaltsBeforeAnyDatabase ==
    (script = "migrate" /\ log # <<>> /\ ~Has(environ, SUPABASE_URL))
        => /\ log = <<"step:validate">>
           /\ pc \in {"returned", "exited"}
           /\ result = "False" /\ exc = "none"
           /\ childEnv = None
           /\ exportFile \in {"absent", "stale"}

\* a run without SUPABASE_URL has ended with exit status 1
C3_Witness ==
    /\ script = "migrate" /\ pc = "exited" /\ ~Has(environ, SUPABASE_URL)
    /\ log = <<"step:validate">> /\ result = "False" /\ exitCode = 1

(* ---- C4 ---- *)
\* C4: when the export child process ends with a non-zero status, the run
\* stops at the export step: nothing follows it in the log (no migrate, no
\* loaddata, no write of the export file) and main() returns False.
C4_ExportFailureHalts ==
    (script = "migrate" /\ Occurs("returncode:1"))
        => /\ log[Len(log)] = "returncode:1"
           /\ ~Occurs("open:w") /\ ~Occurs("ensure_connection")
           /\ ~Occurs("migrate") /\ ~Occurs("loaddata")
           /\ ~Occurs("step:migrate") /\ ~Occurs("step:import")
           /\ exportFile \in {"absent", "stale"}
           /\ pc \in {"returned", "exited"}
           /\ result = "False" /\ exc = "none"

\* a run whose export child failed has ended with exit status 1
C4_Witness ==
    /\ script = "migrate" /\ pc = "exited" /\ Occurs("returncode:1")
    /\ result = "False" /\ exitCode = 1

(* ---- C5 ---- *)
\* C5 as stated: with an unattended-mode flag set, no prompt is issued and
\* the export file the run wrote is gone when the run is over.
C5_UnattendedAlwaysRemoves ==
    (script = "migrate" /\ UnattendedFlagSet /\ log # <<>>)
        => /\ ~Occurs("input:confirm") /\ ~Occurs("input:delete")
           /\ (MainOver /\ Occurs("ok:export")) => exportFile = "absent"

\* C5 amended: with an unattended-mode flag set, no prompt is issued at any
\* point of the run; a run that reaches the cleanup (export, migration and
\* import succeeded) unlinks the export file without asking, and the file is
\* gone when main() returns unless that unlink raised.
C5_UnattendedNoPromptRemovesAfterImport ==
    (script = "migrate" /\ UnattendedFlagSet /\ log # <<>>)
        => /\ ~Occurs("input:confirm") /\ ~Occurs("input:delete")
           /\ (Occurs("step:confirm") => (ci_mode \/ auto_confirm))
           /\ (Occurs("step:cleanup")
                 => /\ Occurs("unlink") /\ Before("ok:import", "unlink")
                    /\ result = "True"
                    /\ (~Occurs("unlink:OSError") => exportFile = "absent"))

\* an unattended run, recognised by CI=TRUE in upper case, has removed the
\* export file and exited 0
C5_Witness ==
    /\ script = "migrate" /\ pc = "exited" /\ exitCode = 0
    /\ Get(environ, CI, None) = <<"TRUE">>
    /\ ~Has(environ, AUTO_CONFIRM_MIGRATION)
    /\ Occurs("unlink") /\ exportFile = "absent"

(* ---- C6 ---- *)
\* C6: the steps run in the fixed order, each at most once and each only
\* after the one before it succeeded: export only with the URL present, a
\* SQLite file found and the operator's yes (or unattended mode), migration
\* only after a successful export, import only after a successful
\* migration, cleanup only after a successful import; main() returns True
\* only if export, migration and import all succeeded.
C6_StepsInOrderEachGated ==
    script = "migrate" =>
        /\ LET steps == SelectSeq(log, LAMBDA e : e \in {StepOrder[i] : i \in 1..Len(StepOrder)})
           IN  Len(steps) <= Len(StepOrder) /\ steps = SubSeq(StepOrder, 1, Len(steps))
        /\ \A e \in Effects \cup {"input:confirm", "input:delete"} : Count(e) <= 1
        /\ Occurs("step:export")
             => /\ ~Falsy(Get(environ, SUPABASE_URL, None))
                /\ sqlite_path \in 1..NumPaths
                /\ (answers.confirm \in YesAnyCase \/ UnattendedFlagSet)
        /\ Before("ok:export", "step:migrate")
        /\ Before("ok:migrate", "step:import")
        /\ Before("ok:import", "step:cleanup")
        /\ Before("step:export", "subprocess.run")
        /\ Before("step:migrate", "migrate")
        /\ Before("step:import", "loaddata")
        /\ result = "True"
             => Occurs("ok:export") /\ Occurs("ok:migrate") /\ Occurs("ok:import")

\* an interactive run has gone through all seven steps and returned True
C6_Witness ==
    /\ script = "migrate" /\ pc = "returned" /\ result = "True"
    /\ SelectSeq(log, LAMBDA e : e \in {StepOrder[i] : i \in 1..Len(StepOrder)}) = StepOrder
    /\ answers.confirm = <<"yes">>

(* ---- C7 ---- *)
\* C7: a script that has ended has exit status 0 exactly when its main
\* function returned True, and 1 otherwise (False returned, the operator
\* declined or interrupted, or an exception left the main function).
C7_ExitCodeReflectsResult ==
    /\ pc = "exited" => exitCode = (IF result = "True" /\ exc = "none" THEN 0 ELSE 1)
    /\ pc # "exited" => exitCode = -1
    /\ (pc = "exited" /\ exc \in {"KeyboardInterrupt", "EOFError", "IndexError",
                                  "ValueError", "NameError"}) => exitCode = 1
    /\ (pc = "exited" /\ answers.confirm \notin YesAnyCase \cup {None}) => exitCode = 1

\* the operator interrupted the migration at a prompt and the exit status is 1
C7_Witness ==
    /\ script = "migrate" /\ pc = "exited" /\ exc = "KeyboardInterrupt"
    /\ Occurs("input:confirm") /\ exitCode = 1

(* ---- C8 ---- *)
\* C8: with DATABASE_URL set and the SQLite engine configured, the verifier
\* returns False and exits 1 without opening a connection or sending a query.
C8_SqliteEngineFailsWithoutConnecting ==
    (script = "verify" /\ pc = "exited" /\ log # <<>>
       /\ ~Falsy(Get(environ, DATABASE_URL, None))
       /\ engine = <<"django.db.backends.", "sqlite", "3">>)
        => /\ result = "False" /\ exitCode = 1
           /\ ~Occurs("ensure_connection") /\ ~Occurs("execute")

(* ---- C9 ---- *)
\* the line, without its line end, reads KEY="value" or KEY='value'
QuotedAssign(line) ==
    LET s == Strip(line)
        i == Find(s, <<"=">>)
    IN  /\ i > 1 /\ Len(s) >= i + 2
        /\ s[1] # "#"
        /\ \A j \in 1..(i - 1) : s[j] \notin Whitespace
        /\ s[i + 1] \in {"\"", "'"} /\ s[Len(s)] = s[i + 1]

\* KEY of such a line
QuotedKey(line) == LET s == Strip(line) IN SubSeq(s, 1, Find(s, <<"=">>) - 1)

\* value of such a line: what stands between the two quotes
QuotedValue(line) ==
    LET s == Strip(line) IN SubSeq(s, Find(s, <<"=">>) + 2, Len(s) - 1)

\* the line is blank, a comment, or has no "="
Inert(line) ==
    LET s == Strip(line)
    IN  s = <<>> \/ s[1] = "#" \/ \A j \in 1..Len(s) : s[j] # "="

\* the name a line that is not inert assigns to: the text before its first "="
AssignedName(line) ==
    LET s == Strip(line) IN Strip(SubSeq(s, 1, Find(s, <<"=">>) - 1))

\* C9: once the loader has run, every line KEY="value" or KEY='value' that no
\* later line of the file assigns to again has made environ[KEY] the value
\* between its quotes; a file of blank, comment and "="-less lines, and an
\* absent file, leave the environment as it was and raise nothing.
C9_LoaderStripsSurroundingQuotes ==
    pc = "setup" =>
        /\ \A i \in 1..Len(envLines) :
             (QuotedAssign(envLines[i])
                /\ \A j \in (i + 1)..Len(envLines) :
                      Inert(envLines[j])
                      \/ AssignedName(envLines[j]) # QuotedKey(envLines[i]))
               => /\ Has(environ, QuotedKey(envLines[i]))
                  /\ environ[QuotedKey(envLines[i])] = QuotedValue(envLines[i])
        /\ (\A i \in 1..Len(envLines) : Inert(envLines[i]))
               => environ = environ0 /\ exc = "none"

(* ---- C10 ---- *)
\* C10 as stated: the export file is unlinked only after a successful
\* import; a run whose migration or import failed returns with the file the
\* export wrote still there, in unattended mode too; in interactive mode
\* the file is deleted only on the answer 'yes' or 'y' and kept on any
\* other answer; a failure in the cleanup leaves the result True.
C10_DeletedOnlyOnYesOrY ==
    script = "migrate" =>
        /\ Before("ok:import", "unlink")
        /\ (Returned /\ Occurs("ok:export") /\ ~Occurs("ok:import"))
             => (exportFile = "fresh" /\ result = "False")
        /\ (Occurs("input:delete") /\ Occurs("unlink"))
             => answers.delete \in {<<"yes">>, <<"y">>}
        /\ (Returned /\ Occurs("input:delete")
              /\ answers.delete \notin {<<"yes">>, <<"y">>})
             => exportFile = "fresh"
        /\ (MainOver /\ (Occurs("unlink:OSError") \/ Occurs("input:EOFError")))
             => (result = "True" /\ exc = "none")

\* C10 amended: as stated, with the answer compared in lower case: the file
\* is deleted only on an answer that is 'yes' or 'y' in any letter case and
\* kept on any other answer.
C10_DeletedOnlyOnYesAnyCase ==
    script = "migrate" =>
        /\ Before("ok:import", "unlink")
        /\ (exportFile = "absent" /\ Occurs("ok:export")) => Occurs("ok:import")
        /\ (Returned /\ Occurs("ok:export") /\ ~Occurs("ok:import"))
             => (exportFile = "fresh" /\ result = "False")
        /\ (Occurs("input:delete") /\ Occurs("unlink"))
             => answers.delete \in YesAnyCase
        /\ (Returned /\ Occurs("input:delete") /\ answers.delete \notin YesAnyCase)
             => exportFile = "fresh"
        /\ (MainOver /\ (Occurs("unlink:OSError") \/ Occurs("input:EOFError")))
             => (result = "True" /\ exc = "none")

\* an interactive run has deleted the export file on the answer YES
C10_Witness ==
    /\ script = "migrate" /\ pc = "returned" /\ result = "True"
    /\ Occurs("input:delete") /\ answers.delete = <<"YES">>
    /\ Occurs("unlink") /\ exportFile = "absent"

====
